---- MODULE Spec2Model ----
(***************************************************************************)
(* Model of the calendar backend (src/main.py) and of the roster scripts   *)
(* (src/sync_users.py, src/reset_db.py).                                   *)
(*                                                                         *)
(* The database calendar.db is the shared state: the tables user, event    *)
(* and eventresponse.  Request handlers of main.py run on worker threads,  *)
(* each with its own Session; a handler's reads and its commit are         *)
(* separate steps, and only a commit changes the database.                 *)
(***************************************************************************)
EXTENDS Integers, FiniteSets, Sequences, TLC

\* ------------------------------------------------------------------ bounds
MaxUserId == 2
MaxEventId == 2
MaxClock == 2
MaxRowId == 2

\* Worker threads serving requests.
Procs == {"w1", "w2"}

UserIds == 1..MaxUserId
EventIds == 1..MaxEventId


\* The bodies of the requests of SeqSpec.
Bodies ==
    {[status |-> "Yes", note |-> ""], [status |-> "No", note |-> "late"],
     [status |-> "Perhaps", note |-> "late"]}

\* The (event_id, user_id) pairs they name: two users of one event, and one user
\* in two events.
Pairs == {<<1, 1>>, <<1, 2>>, <<2, 1>>}

\* The users that requests name.
Callers == {1, 2}

\* ------------------------------------------------------------------ state
VARIABLES
    users,      \* table user: id -> [name, type, role, active]
    events,     \* table event: the ids of the rows (fields are not used here)
    responses,  \* table eventresponse: a set of rows
    now,        \* the clock read by datetime.now(timezone.utc)
    req,        \* per worker: the handler of create_or_update_response in flight
    sync,       \* the run of sync_users.py: its place and its local variables
    operator,   \* what the operator script now running, or last run, asked and saved
    summary     \* the answer of responses_summary on its way to the client

vars == <<users, events, responses, now, req, sync, operator, summary>>

\* A table or dict with no rows.
EmptyMap == [i \in {} |-> i]

Max(S) == CHOOSE x \in S : \A y \in S : y <= x

\* sqlite gives a row inserted without an id the largest rowid in use plus one.
NextRowId(ids) == IF ids = {} THEN 1 ELSE Max(ids) + 1

User(name, type, role, active) ==
    [name |-> name, type |-> type, role |-> role, active |-> active]

EventResponse(id, user_id, event_id, status, note, created_at, updated_at) ==
    [id |-> id, user_id |-> user_id, event_id |-> event_id, status |-> status,
     note |-> note, created_at |-> created_at, updated_at |-> updated_at]

\* The rows of one (event_id, user_id) pair.
RowsOf(rs, event_id, user_id) ==
    {r \in rs : r.event_id = event_id /\ r.user_id = user_id}

Idle ==
    [pc |-> "idle", event_id |-> 0, user_id |-> 0, status |-> "", note |-> "",
     existing |-> {}, code |-> 0, detail |-> ""]

\* No run of sync_users.py.  statements are the DELETE, UPDATE and INSERT
\* statements on the table user that the run's session has sent, in order; an
\* UPDATE sets the columns that were assigned a new value.
NoRun ==
    [pc |-> "idle", csv_users |-> EmptyMap, db_users |-> EmptyMap,
     mismatches |-> << >>, updates_count |-> 0, inserts_count |-> 0,
     statements |-> << >>]

\* No operator script runs: nobody was asked, nothing was copied.
NoScript == [script |-> "none", confirmed |-> FALSE, backed_up |-> FALSE]

\* No answer of responses_summary is on its way.
NoSummary ==
    [code |-> 0, event_id |-> 0, yes |-> 0, no |-> 0, maybe |-> 0,
     mentors_attending |-> 0, students_attending |-> 0]

\* A handler that has answered: the status code and, for an error, its detail.
Done(code, detail) == [Idle EXCEPT !.code = code, !.detail = detail]

Init ==
    /\ users = EmptyMap
    /\ events = {}
    /\ responses = {}
    /\ now = 0
    /\ req = [p \in Procs |-> Idle]
    /\ sync = NoRun
    /\ operator = NoScript
    /\ summary = NoSummary

\* datetime.now(): time passes between any two steps.
Tick ==
    /\ now < MaxClock
    /\ now' = now + 1
    /\ UNCHANGED <<users, events, responses, req, sync, operator, summary>>

\* ---------------------------------------------------------------- helpers
\* A dict with one key set (d[k] = v).
Put(d, k, v) == [i \in (DOMAIN d) \cup {k} |-> IF i = k THEN v ELSE d[i]]

\* A dict without the keys in ks.
Without(d, ks) == [i \in (DOMAIN d) \ ks |-> d[i]]

\* ------------------------------------------------------------ POST /users
\* u.id = 0 stands for a body with no id: sqlite assigns one.  A body whose id
\* is taken fails on the primary key at commit and changes nothing.
create_user(u) ==
    LET id == IF u.id = 0 THEN NextRowId(DOMAIN users) ELSE u.id
    IN  /\ id <= MaxUserId
        /\ users' = IF id \in DOMAIN users
                      THEN users
                      ELSE Put(users, id, User(u.name, u.type, u.role, u.active))
        /\ UNCHANGED <<events, responses, now, req, sync, operator, summary>>

\* session.delete(user) of a user that has responses: the relationship
\* User.responses has no delete cascade, so the flush sets user_id of those rows
\* to NULL, the column is NOT NULL, and the commit fails: nothing changes.
delete_user(user_id) ==
    /\ users' = IF user_id \in DOMAIN users
                   /\ {r \in responses : r.user_id = user_id} = {}
                  THEN Without(users, {user_id})
                  ELSE users
    /\ UNCHANGED <<events, responses, now, req, sync, operator, summary>>

\* ----------------------------------------------------------- POST /events
\* A valid body: the new row gets the next rowid.
create_event ==
    /\ NextRowId(events) <= MaxEventId
    /\ events' = events \cup {NextRowId(events)}
    /\ UNCHANGED <<users, responses, now, req, sync, operator, summary>>

\* As delete_user: an event that has responses cannot be deleted.
delete_event(event_id) ==
    /\ events' = IF event_id \in events
                    /\ {r \in responses : r.event_id = event_id} = {}
                   THEN events \ {event_id}
                   ELSE events
    /\ UNCHANGED <<users, responses, now, req, sync, operator, summary>>

\* ------------------------------------- POST /events/{event_id}/responses
\* Lines 149-151: the request arrives and the event is looked up.
check_event(p, event_id, user_id, status, note) ==
    /\ req[p].pc = "idle"
    /\ req' = [req EXCEPT ![p] =
                 IF event_id \notin events
                 THEN Done(404, "Event not found")
                 ELSE [Idle EXCEPT !.pc = "check_user",
                                   !.event_id = event_id, !.user_id = user_id,
                                   !.status = status, !.note = note]]
    /\ UNCHANGED <<users, events, responses, now, sync, operator, summary>>

\* The handler were it to write the row before it validates the status.
check_user_validating_late(p) ==
    /\ req[p].pc = "check_user"
    /\ IF req[p].user_id \notin DOMAIN users
       THEN /\ req' = [req EXCEPT ![p] = Done(404, "User not found")]
            /\ responses' = responses
       ELSE IF req[p].status \notin {"Yes", "No", "Maybe"}
       THEN /\ req' = [req EXCEPT ![p] =
                         Done(400, "status must be 'Yes', 'No', or 'Maybe'")]
            /\ responses' = responses \cup
                   {EventResponse(NextRowId({r.id : r \in responses}), req[p].user_id,
                                  req[p].event_id, req[p].status, req[p].note, now, now)}
       ELSE /\ req' = [req EXCEPT ![p].pc = "select"]
            /\ responses' = responses
    /\ UNCHANGED <<users, events, now, sync, operator, summary>>

\* The handler were it to validate the status before it looks up the user.
check_user_status_first(p) ==
    /\ req[p].pc = "check_user"
    /\ req' = [req EXCEPT ![p] =
                 IF req[p].status \notin {"Yes", "No", "Maybe"}
                 THEN Done(400, "status must be 'Yes', 'No', or 'Maybe'")
                 ELSE IF req[p].user_id \notin DOMAIN users
                 THEN Done(404, "User not found")
                 ELSE [@ EXCEPT !.pc = "select"]]
    /\ UNCHANGED <<users, events, responses, now, sync, operator, summary>>

\* Lines 154-160: the user is looked up, then the status is validated.
check_user(p) ==
    /\ req[p].pc = "check_user"
    /\ req' = [req EXCEPT ![p] =
                 IF req[p].user_id \notin DOMAIN users
                 THEN Done(404, "User not found")
                 ELSE IF req[p].status \notin {"Yes", "No", "Maybe"}
                 THEN Done(400, "status must be 'Yes', 'No', or 'Maybe'")
                 ELSE [@ EXCEPT !.pc = "select"]]
    /\ UNCHANGED <<users, events, responses, now, sync, operator, summary>>

\* Lines 163-164: the first row of the pair, if any.  The statement has no
\* ORDER BY, so with several rows any of them may come first.
select_existing(p) ==
    /\ req[p].pc = "select"
    /\ LET rows == RowsOf(responses, req[p].event_id, req[p].user_id)
       IN  IF rows = {}
           THEN req' = [req EXCEPT ![p].pc = "insert", ![p].existing = {}]
           ELSE \E r \in rows :
                    req' = [req EXCEPT ![p].pc = "update", ![p].existing = {r}]
    /\ UNCHANGED <<users, events, responses, now, sync, operator, summary>>

\* The update path were it to leave the note alone (line 167 left out).
UpdatedRow_without_note(row, loaded, status, note, t) ==
    [row EXCEPT
        !.status = IF status # loaded.status THEN status ELSE @,
        !.updated_at = IF t # loaded.updated_at THEN t ELSE @]

\* The update path were it to stamp created_at as the insert path does.
UpdatedRow_restamped(row, loaded, status, note, t) ==
    [row EXCEPT !.status = status, !.note = note, !.created_at = t, !.updated_at = t]

\* Lines 166-168 applied to the row as it is now in the table.  The flush writes
\* the attributes whose value differs from the one loaded, in
\* UPDATE eventresponse SET ... WHERE id = <the loaded id>.
UpdatedRow(row, loaded, status, note, t) ==
    [row EXCEPT
        !.status = IF status # loaded.status THEN status ELSE @,
        !.note = IF note # loaded.note THEN note ELSE @,
        !.updated_at = IF t # loaded.updated_at THEN t ELSE @]

\* Lines 165-172: the update path.  When the loaded row is gone the UPDATE
\* matches no row and the commit fails.
update_existing(p) ==
    /\ req[p].pc = "update"
    /\ LET loaded == CHOOSE r \in req[p].existing : TRUE
           hit == {r \in responses : r.id = loaded.id}
       IN  IF hit = {}
           THEN /\ responses' = responses
                /\ req' = [req EXCEPT ![p] = Done(500, "StaleDataError")]
           ELSE /\ responses' =
                     (responses \ hit) \cup
                     {UpdatedRow(r, loaded, req[p].status, req[p].note, now) : r \in hit}
                /\ req' = [req EXCEPT ![p] = Done(200, "")]
    /\ UNCHANGED <<users, events, now, sync, operator, summary>>

\* Line 174: the new row.  created_at and updated_at are two readings of the
\* clock, the second not before the first.
NewRow(id, user_id, event_id, status, note, t1, t2) ==
    EventResponse(id, user_id, event_id, status, note, t1, t2)

\* Lines 174-178: the insert path.
insert_new(p, t2) ==
    /\ req[p].pc = "insert"
    /\ NextRowId({r.id : r \in responses}) <= MaxRowId
    /\ now <= t2 /\ t2 <= MaxClock
    /\ responses' = responses \cup
           {NewRow(NextRowId({r.id : r \in responses}), req[p].user_id,
                   req[p].event_id, req[p].status, req[p].note, now, t2)}
    /\ now' = t2
    /\ req' = [req EXCEPT ![p] = Done(200, "")]
    /\ UNCHANGED <<users, events, sync, operator, summary>>

\* ------------------------- DELETE /events/{event_id}/responses/{user_id}
delete_response(event_id, user_id) ==
    /\ event_id \in events
    /\ \E r \in RowsOf(responses, event_id, user_id) :
          responses' = responses \ {r}
    /\ UNCHANGED <<users, events, now, req, sync, operator, summary>>

\* ----------------------------------- GET /events/{event_id}/responses/summary
\* The handler were its select to lack the WHERE clause.
event_responses_of_all(rs, event_id) == rs

\* Line 213: the rows of the event.
event_responses(rs, event_id) == {r \in rs : r.event_id = event_id}

\* Lines 214-216: sum(1 for r in responses if r.status == status).
RECURSIVE status_count(_, _)
status_count(rows, status) ==
    IF rows = {}
    THEN 0
    ELSE LET r == CHOOSE x \in rows : TRUE
         IN  (IF r.status = status THEN 1 ELSE 0) + status_count(rows \ {r}, status)

\* Lines 219-228: the loop over the rows; st holds mentor_count and
\* student_count.  The user of a Yes row is looked up as the loop reaches it; a
\* row whose user is gone, or is neither mentor nor student, counts for neither.
RECURSIVE attending(_, _)
attending(rows, st) ==
    IF rows = {}
    THEN st
    ELSE LET r == CHOOSE x \in rows : TRUE
             type == IF r.status = "Yes" /\ r.user_id \in DOMAIN users
                     THEN users[r.user_id].type
                     ELSE ""
         IN  attending(rows \ {r},
                       IF type = "mentor"
                       THEN [st EXCEPT !.mentor_count = @ + 1]
                       ELSE IF type = "student"
                       THEN [st EXCEPT !.student_count = @ + 1]
                       ELSE st)

\* Lines 208-236: the handler, which writes nothing.
responses_summary(event_id) ==
    /\ summary = NoSummary
    /\ summary' =
           IF event_id \notin events
           THEN [NoSummary EXCEPT !.code = 404, !.event_id = event_id]
           ELSE LET rows == event_responses(responses, event_id)
                    st == attending(rows, [mentor_count |-> 0, student_count |-> 0])
                IN  [code |-> 200, event_id |-> event_id,
                     yes |-> status_count(rows, "Yes"),
                     no |-> status_count(rows, "No"),
                     maybe |-> status_count(rows, "Maybe"),
                     mentors_attending |-> st.mentor_count,
                     students_attending |-> st.student_count]
    /\ UNCHANGED <<users, events, responses, now, req, sync, operator>>

\* The answer reaches the client.
summary_sent ==
    /\ summary # NoSummary
    /\ summary' = NoSummary
    /\ UNCHANGED <<users, events, responses, now, req, sync, operator>>

\* ------------------------------------------------------------------ server
\* The server under concurrent requests: handlers of the workers interleave step
\* by step, on the pairs of event 1.  The clock stands still here; SeqSpec below
\* lets it run.
PostedUsers ==
    {[id |-> i, name |-> "Alice", type |-> "mentor", role |-> "coach", active |-> TRUE] :
        i \in 0..MaxUserId}

Next ==
    \/ \E u \in PostedUsers : create_user(u)
    \/ \E user_id \in UserIds : delete_user(user_id)
    \/ create_event
    \/ \E event_id \in EventIds : delete_event(event_id)
    \/ \E p \in Procs, user_id \in Callers, status \in {"Yes", "Maybe", "Perhaps"} :
          check_event(p, 1, user_id, status, "")
    \/ \E p \in Procs : check_user(p)
    \/ \E p \in Procs : select_existing(p)
    \/ \E p \in Procs : update_existing(p)
    \/ \E p \in Procs : insert_new(p, now)
    \/ \E event_id \in EventIds, user_id \in UserIds : delete_response(event_id, user_id)

Spec == Init /\ [][Next]_vars

\* ------------------------------------------------- non-overlapping requests
\* The same server when no request arrives while another is being handled (one
\* worker serves them all), the clock running.  A handler reads the clock only
\* as it writes, so time passing between requests and between the two readings
\* of the insert is all the time there is to tell apart.
AllIdle == \A p \in Procs : req[p].pc = "idle"

SeqNext ==
    \/ AllIdle /\ Tick
    \/ AllIdle /\ \E u \in {v \in PostedUsers : v.id = 0} : create_user(u)
    \/ AllIdle /\ create_event
    \/ AllIdle /\ \E k \in Pairs, b \in Bodies :
                     check_event("w1", k[1], k[2], b.status, b.note)
    \/ check_user("w1")
    \/ select_existing("w1")
    \/ update_existing("w1")
    \/ \E t2 \in {now, now + 1} : insert_new("w1", t2)
    \/ AllIdle /\ \E event_id \in EventIds, user_id \in UserIds :
                     delete_response(event_id, user_id)

SeqSpec == Init /\ [][SeqNext]_vars

\* --------------------------------------------------------- the summary page
\* The server asked for summaries between non-overlapping requests: people of
\* three categories answer Yes, No or Maybe for the events, and take answers
\* back.
Categories == {"mentor", "student", "guest"}

Members ==
    {[id |-> 0, name |-> "Alice", type |-> t, role |-> "coach", active |-> TRUE] :
        t \in Categories}

Asleep == AllIdle /\ summary = NoSummary

SummaryNext ==
    \/ Asleep /\ \E u \in Members : create_user(u)
    \/ Asleep /\ create_event
    \/ Asleep /\ \E k \in Pairs, status \in {"Yes", "No", "Maybe"} :
                    check_event("w1", k[1], k[2], status, "")
    \/ check_user("w1")
    \/ select_existing("w1")
    \/ update_existing("w1")
    \/ insert_new("w1", now)
    \/ Asleep /\ \E event_id \in EventIds, user_id \in UserIds :
                    delete_response(event_id, user_id)
    \/ AllIdle /\ \E event_id \in EventIds : responses_summary(event_id)
    \/ summary_sent

SummarySpec == Init /\ [][SummaryNext]_vars

\* ------------------------------------------------------------ sync_users.py
Min(S) == CHOOSE x \in S : \A y \in S : x <= y

\* sorted(S) of a set of ids.
RECURSIVE sorted(_)
sorted(S) == IF S = {} THEN << >> ELSE <<Min(S)>> \o sorted(S \ {Min(S)})

\* The cells of users.csv are text: int() reads an id or a flag, strip() trims
\* a name.
Digits == <<"1", "2", "3", "4">>
int(cell) == IF cell = "0" THEN 0 ELSE CHOOSE i \in 1..Len(Digits) : Digits[i] = cell
strip(cell) == IF cell = " Alice " THEN "Alice" ELSE cell

\* Lines 22-36: the rows of the file, in order, into a dict keyed by id.
RECURSIVE load_csv_users(_)
load_csv_users(rows) ==
    IF rows = << >> THEN EmptyMap
    ELSE LET row == rows[Len(rows)]
             user_id == int(row.id)
         IN  Put(load_csv_users(SubSeq(rows, 1, Len(rows) - 1)), user_id,
                 [id |-> user_id, name |-> strip(row.user), type |-> row.type,
                  role |-> row.role, active |-> (int(row.active) # 0)])

\* Lines 39-52: the user table into a dict keyed by id.
load_db_users ==
    [id \in DOMAIN users |->
        [id |-> id, name |-> users[id].name, type |-> users[id].type,
         role |-> users[id].role, active |-> users[id].active]]

\* Lines 73-77.
common_ids(csv_users, db_users) == (DOMAIN csv_users) \cap (DOMAIN db_users)
csv_only(csv_users, db_users) == (DOMAIN csv_users) \ (DOMAIN db_users)
db_only(csv_users, db_users) == (DOMAIN db_users) \ (DOMAIN csv_users)

\* The loop were it to stop at the first mismatch.
RECURSIVE validate_first_only(_, _, _)
validate_first_only(ids, csv_users, db_users) ==
    IF ids = << >> THEN << >>
    ELSE IF csv_users[Head(ids)].name # db_users[Head(ids)].name
         THEN <<[id |-> Head(ids), csv_name |-> csv_users[Head(ids)].name,
                 db_name |-> db_users[Head(ids)].name]>>
         ELSE validate_first_only(Tail(ids), csv_users, db_users)

\* Lines 87-97: the validation loop over sorted(common_ids).
RECURSIVE validate(_, _, _)
validate(ids, csv_users, db_users) ==
    IF ids = << >> THEN << >>
    ELSE LET user_id == Head(ids)
             csv_name == csv_users[user_id].name
             db_name == db_users[user_id].name
         IN  (IF csv_name # db_name
              THEN <<[id |-> user_id, csv_name |-> csv_name, db_name |-> db_name]>>
              ELSE << >>)
             \o validate(Tail(ids), csv_users, db_users)

\* The gate were it to print the mismatches and go on.
gate_warn_only(mismatches) == "delete"

\* Lines 99-110: with mismatches the script prints them and exits with 1.
gate(mismatches) == IF mismatches # << >> THEN "failed" ELSE "delete"

\* Lines 55-110 and 191-198: the script starts on a file, loads both sides and
\* validates.  It asks the operator nothing and copies nothing.
sync_start(rows) ==
    /\ sync.pc = "idle"
    /\ operator.script = "none"
    /\ LET csv_users == load_csv_users(rows)
           db_users == load_db_users
           mismatches == validate(sorted(common_ids(csv_users, db_users)),
                                  csv_users, db_users)
       IN  sync' = [NoRun EXCEPT !.pc = gate(mismatches),
                                 !.csv_users = csv_users,
                                 !.db_users = db_users,
                                 !.mismatches = mismatches]
    /\ operator' = [NoScript EXCEPT !.script = "sync_users"]
    /\ UNCHANGED <<users, events, responses, now, req, summary>>

\* Lines 119-123: the users of db_only that session.get still finds.
to_delete(s) == {user_id \in db_only(s.csv_users, s.db_users) : user_id \in DOMAIN users}

\* Lines 116-125: the deletes and their commit.  As in delete_user, the commit
\* fails when one of the users has responses; the script dies of the exception
\* and nothing is deleted.
sync_delete ==
    /\ sync.pc = "delete"
    /\ IF \E r \in responses : r.user_id \in to_delete(sync)
       THEN /\ users' = users
            /\ sync' = [sync EXCEPT !.pc = "error"]
       ELSE /\ users' = Without(users, to_delete(sync))
            /\ sync' = [sync EXCEPT
                          !.pc = "upsert",
                          !.statements =
                              [k \in 1..Cardinality(to_delete(sync)) |->
                                  [op |-> "DELETE", id |-> sorted(to_delete(sync))[k]]]]
    /\ UNCHANGED <<events, responses, now, req, operator, summary>>

\* The comparison were it to mark every field as changed.
changes_always(db_user, csv_user) == {"name", "type", "role", "active"}

\* Lines 141-159: the fields of db_user that differ from the CSV row.
changes(db_user, csv_user) ==
    {f \in {"name", "type", "role", "active"} : db_user[f] # csv_user[f]}

\* The assignments without the one of role (lines 151-154 left out).
updated_without_role(db_user, csv_user) ==
    [f \in {"name", "type", "role", "active"} |->
        IF f \in changes(db_user, csv_user) \ {"role"} THEN csv_user[f] ELSE db_user[f]]

\* Lines 141-159: db_user after the assignments.
updated(db_user, csv_user) ==
    [f \in {"name", "type", "role", "active"} |->
        IF f \in changes(db_user, csv_user) THEN csv_user[f] ELSE db_user[f]]

\* Lines 132-176: the loop over sorted(csv_users.keys()), on the session's view
\* of the table.  st holds the table, the two counters and the statements sent.
\* The session autoflushes: session.get of line 134 is a SELECT, and before it
\* the session sends what the iteration before left pending, so the UPDATEs and
\* INSERTs go out in the order of the loop; the commit of line 178 sends the
\* last.
RECURSIVE sync_loop(_, _, _)
sync_loop(ids, csv_users, st) ==
    IF ids = << >> THEN st
    ELSE LET user_id == Head(ids)
             csv_user == csv_users[user_id]
             step ==
                 IF user_id \in DOMAIN st.table
                 THEN IF changes(st.table[user_id], csv_user) # {}
                      THEN [st EXCEPT
                              !.table = Put(@, user_id, updated(@[user_id], csv_user)),
                              !.updates_count = @ + 1,
                              !.statements =
                                  Append(@, [op |-> "UPDATE", id |-> user_id,
                                             set |-> changes(st.table[user_id],
                                                             csv_user)])]
                      ELSE st
                 ELSE [st EXCEPT
                         !.table = Put(@, user_id,
                                       User(csv_user.name, csv_user.type,
                                            csv_user.role, csv_user.active)),
                         !.inserts_count = @ + 1,
                         !.statements = Append(@, [op |-> "INSERT", id |-> user_id])]
         IN  sync_loop(Tail(ids), csv_users, step)

\* Lines 127-188: the updates and inserts and their commit, then the report.
sync_upsert ==
    /\ sync.pc = "upsert"
    /\ LET st == sync_loop(sorted(DOMAIN sync.csv_users), sync.csv_users,
                           [table |-> users, updates_count |-> 0, inserts_count |-> 0,
                            statements |-> sync.statements])
       IN  /\ users' = st.table
           /\ sync' = [sync EXCEPT !.pc = "done",
                                   !.updates_count = st.updates_count,
                                   !.inserts_count = st.inserts_count,
                                   !.statements = st.statements]
    /\ UNCHANGED <<events, responses, now, req, operator, summary>>

\* The script is stopped between two of its steps (killed, or the machine
\* stops): what its session had not committed is lost.
sync_crash ==
    /\ sync.pc \in {"delete", "upsert"}
    /\ sync' = [sync EXCEPT !.pc = "crashed"]
    /\ UNCHANGED <<users, events, responses, now, req, operator, summary>>

\* The process is gone, and its variables with it.
sync_exit ==
    /\ sync.pc \in {"done", "failed", "crashed", "error"}
    /\ sync' = NoRun
    /\ operator' = NoScript
    /\ UNCHANGED <<users, events, responses, now, req, summary>>

\* ------------------------------------------------------------- reset_db.py
\* Lines 96-101: unless -y is given the operator is asked.
reset_ask(confirm) ==
    /\ sync.pc = "idle"
    /\ operator.script = "none"
    /\ AllIdle
    /\ operator' = [script |-> "reset_db", confirmed |-> confirm \in {"y", "-y"},
                    backed_up |-> FALSE]
    /\ UNCHANGED <<users, events, responses, now, req, sync, summary>>

\* Lines 103-104 and 20-31: on an answer that starts with y the database file
\* is copied, removed and created empty.
reset_database ==
    /\ operator.script = "reset_db"
    /\ operator.confirmed
    /\ ~operator.backed_up
    /\ operator' = [operator EXCEPT !.backed_up = TRUE]
    /\ users' = EmptyMap
    /\ events' = {}
    /\ responses' = {}
    /\ UNCHANGED <<now, req, sync, summary>>

\* Lines 105-106, or the end of reset_database: the script is over.
reset_exit ==
    /\ operator.script = "reset_db"
    /\ operator.confirmed => operator.backed_up
    /\ operator' = NoScript
    /\ UNCHANGED <<users, events, responses, now, req, sync, summary>>

\* ------------------------------------------------------ the operator's runs
\* The roster under the operator's scripts: users are posted while no script
\* runs, and the server handles no request while one does.
People ==
    {User("Alice", "mentor", "coach", TRUE), User("Alice", "student", "coach", TRUE),
     User("Alice", "mentor", "driver", TRUE), User("Alice", "mentor", "coach", FALSE),
     User("Bob", "mentor", "coach", TRUE)}

RosterPosts ==
    {[id |-> i, name |-> u.name, type |-> u.type, role |-> u.role, active |-> u.active] :
        i \in UserIds, u \in People}

\* The lines a users.csv may hold for one person.
CsvCells ==
    UNION {
        {[user |-> n, type |-> u.type, role |-> u.role,
          active |-> IF u.active THEN "1" ELSE "0"] :
            n \in IF u.name = "Alice" THEN {"Alice", " Alice "} ELSE {u.name}}
        : u \in People}

\* The files: one line per id of a set of ids, in any of the forms above.
CsvFiles ==
    UNION {
        {[k \in 1..Cardinality(S) |->
             [id |-> Digits[sorted(S)[k]], user |-> f[sorted(S)[k]].user,
              type |-> f[sorted(S)[k]].type, role |-> f[sorted(S)[k]].role,
              active |-> f[sorted(S)[k]].active]] : f \in [S -> CsvCells]}
        : S \in SUBSET UserIds}

Quiet == sync.pc = "idle" /\ operator.script = "none" /\ AllIdle

SyncNext ==
    \/ Quiet /\ \E u \in RosterPosts : create_user(u)
    \/ \E confirm \in {"y", "n"} : reset_ask(confirm)
    \/ reset_database
    \/ reset_exit
    \/ Quiet /\ \E rows \in CsvFiles : sync_start(rows)
    \/ sync_delete
    \/ sync_upsert
    \/ sync_crash
    \/ sync_exit

SyncSpec == Init /\ [][SyncNext]_vars

\* ------------------------------------------------- the server stays up
\* sync_users.py run while the server goes on serving POST /users and
\* DELETE /users/{user_id}: the script and the server open the same calendar.db,
\* and nothing keeps a request from committing between two commits of the
\* script, or between its reading of the table and its first commit.
LiveNext ==
    \/ \E u \in RosterPosts : create_user(u)
    \/ \E user_id \in UserIds : delete_user(user_id)
    \/ \E rows \in CsvFiles : sync_start(rows)
    \/ sync_delete
    \/ sync_upsert
    \/ sync_exit

LiveSpec == Init /\ [][LiveNext]_vars

\* ------------------------------------------------------------------ claims
\* A step in which the handler of worker p answers with one of the codes.
Answers(p, codes) ==
    /\ req[p].pc # "idle" \/ req'[p] # req[p]
    /\ req'[p].pc = "idle"
    /\ req'[p].code \in codes

\* C1: in every reachable state, also when handlers for the same pair
\* interleave their read and their write, the table holds at most one row per
\* (event_id, user_id).
C1_AtMostOneRowPerPair ==
    \A event_id \in EventIds, user_id \in UserIds :
        Cardinality(RowsOf(responses, event_id, user_id)) <= 1

\* C7: with non-overlapping calls, right after a successful
\* create_or_update_response the table holds exactly one row of the pair, and
\* its status and note are those of the call.
C7_LatestCallWins ==
    [][\A p \in Procs :
          (req[p].pc \in {"update", "insert"} /\ Answers(p, {200})) =>
              LET rows == RowsOf(responses', req[p].event_id, req[p].user_id)
              IN  /\ Cardinality(rows) = 1
                  /\ \A r \in rows : r.status = req[p].status /\ r.note = req[p].note
      ]_vars

\* A row first written as Yes was overwritten: it now says No with the note of
\* the later call, two clock readings after its insert.
C7_Witness ==
    /\ AllIdle
    /\ \E p \in Procs : req[p].code = 200
    /\ \E r \in responses :
          r.status = "No" /\ r.note = "late" /\ r.updated_at = r.created_at + 2

\* C8: while a row of a pair exists, every step leaves its id and created_at as
\* they were, and never lowers its updated_at.
C8_IdAndCreatedAtKept ==
    [][\A r \in responses : \A r2 \in responses' :
          (r2.event_id = r.event_id /\ r2.user_id = r.user_id) =>
              /\ r2.id = r.id
              /\ r2.created_at = r.created_at
              /\ r2.updated_at >= r.updated_at
      ]_vars

\* A row updated after its insert, by a handler that answered 200.
C8_Witness ==
    /\ \E p \in Procs : req[p].code = 200
    /\ \E r \in responses : r.created_at = 0 /\ r.updated_at = 2 /\ r.status = "Yes"

\* C9: a call answered 404 (event or user absent) or 400 (status not Yes, No
\* or Maybe) leaves the table of responses as it was.
C9_RejectedCallWritesNothing ==
    [][\A p \in Procs : Answers(p, {404, 400}) => responses' = responses]_vars

\* A call was rejected for its status while the table held a row.
C9_Witness ==
    /\ responses # {}
    /\ \E p \in Procs : req[p].code = 400

\* A dict of load_csv_users or load_db_users as rows of the user table.
Table(d) == [id \in DOMAIN d |-> User(d[id].name, d[id].type, d[id].role, d[id].active)]

\* The ids both sides hold under different names.
Conflicts(csv_users, db_users) ==
    {id \in UserIds : /\ id \in DOMAIN csv_users
                      /\ id \in DOMAIN db_users
                      /\ csv_users[id].name # db_users[id].name}

\* C2: when some id of both sides has different names, the run ends in the
\* name-mismatch failure and the user table is the one the run found.
C2_ConflictAbortsUntouched ==
    (sync.pc # "idle" /\ Conflicts(sync.csv_users, sync.db_users) # {}) =>
        /\ sync.pc = "failed"
        /\ users = Table(sync.db_users)

\* A refused run that had, beside the conflict, a user to delete.
C2_Witness ==
    /\ sync.pc = "failed"
    /\ db_only(sync.csv_users, sync.db_users) # {}
    /\ users = Table(sync.db_users)

\* C3: the list of mismatches has exactly one entry, with both names, for every
\* common id whose names differ, and no other entry.
C3_EveryMismatchListed ==
    sync.pc # "idle" =>
        LET bad == Conflicts(sync.csv_users, sync.db_users)
            mm == sync.mismatches
        IN  /\ Len(mm) = Cardinality(bad)
            /\ \A i \in 1..Len(mm) : mm[i].id \in bad
            /\ \A id \in bad : \E i \in 1..Len(mm) :
                  mm[i] = [id |-> id, csv_name |-> sync.csv_users[id].name,
                           db_name |-> sync.db_users[id].name]

\* Two ids mismatch in one run.
C3_Witness == sync.pc = "failed" /\ Len(sync.mismatches) >= 2

\* C4: wherever a run that passed validation stops, the user table is the one
\* it found or the fully reconciled one.
C4_AllOrNothing ==
    (sync.pc \in {"crashed", "error", "done"} /\ sync.mismatches = << >>) =>
        \/ users = Table(sync.db_users)
        \/ users = Table(sync.csv_users)

\* C5: after a run that passed validation and ran to its end, the user table
\* has the ids of the CSV and, for each, its name, type, role and active.
C5_TableEqualsCsv ==
    sync.pc = "done" =>
        /\ DOMAIN users = DOMAIN sync.csv_users
        /\ \A id \in DOMAIN users :
              /\ users[id].name = sync.csv_users[id].name
              /\ users[id].type = sync.csv_users[id].type
              /\ users[id].role = sync.csv_users[id].role
              /\ users[id].active = sync.csv_users[id].active

\* A completed run that deleted one user and changed the role of another.
C5_Witness ==
    /\ sync.pc = "done"
    /\ db_only(sync.csv_users, sync.db_users) # {}
    /\ sync.updates_count = 1
    /\ \E id \in common_ids(sync.csv_users, sync.db_users) :
          sync.csv_users[id].role # sync.db_users[id].role

\* C6: when the CSV and the user table agree in every key and field, the run
\* reports no delete, no update and no insert and leaves the table as it was.
C6_NoOpOnEqualSides ==
    (sync.pc = "done" /\ sync.csv_users = sync.db_users) =>
        /\ Cardinality(db_only(sync.csv_users, sync.db_users)) = 0
        /\ sync.updates_count = 0
        /\ sync.inserts_count = 0
        /\ users = Table(sync.db_users)

\* A completed run on equal sides of two users.
C6_Witness ==
    /\ sync.pc = "done"
    /\ sync.csv_users = sync.db_users
    /\ Cardinality(DOMAIN sync.db_users) = 2

\* C10: a run of sync_users.py that has changed the user table was confirmed by
\* the operator (or forced) and has saved a backup.
C10_ConfirmedAndBackedUp ==
    (sync.pc \in {"upsert", "done", "crashed"} /\ users # Table(sync.db_users)) =>
        /\ operator.confirmed
        /\ operator.backed_up

\* C11: for an existing event the summary's yes, no and maybe are the numbers of
\* that event's rows with each status, and its mentors and students attending
\* are the numbers of that event's Yes rows whose user is now a mentor,
\* respectively a student; rows of other events count for nothing.
Attending(event_id, type) ==
    {r \in responses : /\ r.event_id = event_id
                       /\ r.status = "Yes"
                       /\ r.user_id \in DOMAIN users
                       /\ users[r.user_id].type = type}

Answered(event_id, status) ==
    {r \in responses : r.event_id = event_id /\ r.status = status}

C11_SummaryCounts ==
    summary.code = 200 =>
        /\ summary.event_id \in events
        /\ summary.yes = Cardinality(Answered(summary.event_id, "Yes"))
        /\ summary.no = Cardinality(Answered(summary.event_id, "No"))
        /\ summary.maybe = Cardinality(Answered(summary.event_id, "Maybe"))
        /\ summary.mentors_attending = Cardinality(Attending(summary.event_id, "mentor"))
        /\ summary.students_attending =
               Cardinality(Attending(summary.event_id, "student"))

\* A summary of an event with a Yes of a mentor, while another event has rows.
C11_Witness ==
    /\ summary.code = 200
    /\ summary.mentors_attending = 1
    /\ summary.yes = 1
    /\ \E r \in responses : r.event_id # summary.event_id

\* C13: of the rejections of one call the first in the order event, user,
\* status is the one reported: a call naming a missing event is answered
\* "Event not found" whatever its user and status; a call on an existing event
\* naming a missing user is answered "User not found" whatever its status; and
\* the status is faulted only when the event and the user both exist.
C13_ErrorPrecedence ==
    [][\A p \in Procs :
          /\ \A k \in Pairs, b \in Bodies :
                check_event(p, k[1], k[2], b.status, b.note) /\ k[1] \notin events
                    => req'[p] = Done(404, "Event not found")
          /\ req[p].pc = "check_user" /\ req'[p] # req[p] =>
                /\ req[p].event_id \in events
                /\ req[p].user_id \notin DOMAIN users
                      => req'[p] = Done(404, "User not found")
                /\ req'[p].code = 400 => req[p].user_id \in DOMAIN users]_vars

\* A call on an existing event with a missing user and a status that is none of
\* the three, about to be answered.
C13_Witness ==
    \E p \in Procs :
        /\ req[p].pc = "check_user"
        /\ req[p].event_id \in events
        /\ req[p].user_id \notin DOMAIN users
        /\ req[p].status \notin {"Yes", "No", "Maybe"}

\* C12: the statements of one run come in the order DELETE, UPDATE, INSERT:
\* every DELETE is sent before every UPDATE, and every UPDATE before every
\* INSERT.
Rank(op) == IF op = "DELETE" THEN 1 ELSE IF op = "UPDATE" THEN 2 ELSE 3

C12_DeleteUpdateInsert ==
    \A i, j \in DOMAIN sync.statements :
        i < j => Rank(sync.statements[i].op) <= Rank(sync.statements[j].op)

\* C14: every row of eventresponse names a user of the table user and an event
\* of the table event.
C14_ReferentialIntegrity ==
    \A r \in responses : r.user_id \in DOMAIN users /\ r.event_id \in events

\* C15: a run never overwrites the name of a user it finds in the table: no
\* UPDATE it sends sets the column name, requests that create and delete users
\* while it runs included.
C15_NameNeverOverwritten ==
    \A k \in DOMAIN sync.statements :
        sync.statements[k].op = "UPDATE" => "name" \notin sync.statements[k].set

====
